---- MODULE Spec2Model ----
(***************************************************************************)
(* Model of nvidia_vbios_vfio_patcher.py: the VBIOSROM class (hex view of  *)
(* the ROM, offset detection, sanity tests, splice) and the pipeline that  *)
(* main() drives over it.                                                  *)
(*                                                                         *)
(* The ROM is a sequence of bytes (0..255).  self.content is the output of *)
(* binascii.hexlify: a sequence of lowercase hex digit characters, two per *)
(* byte.  All offsets are 0-based indices into that sequence, as in the    *)
(* source; TLA+ sequences are 1-based, so view[p + 1] is the character at  *)
(* offset p.                                                               *)
(***************************************************************************)
EXTENDS Integers, Sequences, FiniteSets

VARIABLES image, content, offsets, disable_footer, ignore_check,
          stage, error, series, finding, spliced, written

vars == <<image, content, offsets, disable_footer, ignore_check,
          stage, error, series, finding, spliced, written>>

\* Python's None, for an offset that is not set and for a failed re.search.
None == -1

(***************************************************************************)
(* Hex codec (binascii.hexlify / binascii.unhexlify)                       *)
(***************************************************************************)
HexDigits == <<"0", "1", "2", "3", "4", "5", "6", "7",
               "8", "9", "a", "b", "c", "d", "e", "f">>

\* The character class [a-f0-9] of the patterns.
HexClass == {HexDigits[i] : i \in 1..16}

HexValue(c) == (CHOOSE i \in 1..16 : HexDigits[i] = c) - 1

hexlify(bytes) ==
    [i \in 1..(2 * Len(bytes)) |->
        IF i % 2 = 1 THEN HexDigits[(bytes[(i + 1) \div 2] \div 16) + 1]
                     ELSE HexDigits[(bytes[i \div 2] % 16) + 1]]

\* binascii.unhexlify: binascii.Error on an odd length or a non-hex digit.
unhexlify(s) ==
    IF Len(s) % 2 = 1 \/ (\E i \in 1..Len(s) : s[i] \notin HexClass)
    THEN [ok |-> FALSE, data |-> <<>>]
    ELSE [ok |-> TRUE,
          data |-> [i \in 1..(Len(s) \div 2) |->
                       16 * HexValue(s[2 * i - 1]) + HexValue(s[2 * i])]]

\* Python slice view[start:end] with 0 <= start, end <= len(view).
Slice(view, start, end) ==
    IF start >= end THEN <<>> ELSE SubSeq(view, start + 1, end)

(***************************************************************************)
(* The patterns.  Every regex of the source has the same shape:            *)
(*   lit1 ([a-f0-9]){gap1} lit2 ([a-f0-9]){gap2} lit3                      *)
(* with 6 capture groups.                                                  *)
(***************************************************************************)
NPDS == <<"4", "e", "5", "0", "4", "4", "5", "3">>
NPDE == <<"4", "e", "5", "0", "4", "4", "4", "5">>

HEADER_REGEX ==
    [lit1 |-> <<"5", "5", "a", "a">>, gap1 |-> 2,
     lit2 |-> <<"e", "b">>, gap2 |-> 20,
     lit3 |-> <<"5", "6", "4", "9", "4", "4", "4", "5", "4", "f">>,
     groups |-> 6]

FooterRegex(gap) ==
    [lit1 |-> <<"5", "6", "4", "e">>, gap1 |-> gap,
     lit2 |-> NPDS, gap2 |-> 56,
     lit3 |-> NPDE,
     groups |-> 6]

FOOTER_DETECTORS ==
    << [pattern |-> FooterRegex(636), series |-> "RTX 30XX"],
       [pattern |-> FooterRegex(572), series |-> "RTX 2060"],
       [pattern |-> FooterRegex(476), series |-> "GTX 16XX / RTX 20XX"],
       [pattern |-> FooterRegex(444), series |-> "Quadro PXXX"],
       [pattern |-> FooterRegex(348), series |-> "GTX 10XX"],
       [pattern |-> FooterRegex(188), series |-> "GTX 980"],
       [pattern |-> FooterRegex(124), series |-> "GTX 400 - 900 Series"] >>

PatLen(rx) == Len(rx.lit1) + rx.gap1 + Len(rx.lit2) + rx.gap2 + Len(rx.lit3)

\* The literal lit stands at offset p of view.
LitAt(view, lit, p) ==
    /\ p >= 0
    /\ p + Len(lit) <= Len(view)
    /\ \A i \in 1..Len(lit) : view[p + i] = lit[i]

\* n characters of the class [a-f0-9] stand at offset p of view.
ClassRun(view, n, p) ==
    /\ p + n <= Len(view)
    /\ \A i \in 1..n : view[p + i] \in HexClass

\* The regex matches with its first character at offset p.
MatchAt(view, rx, p) ==
    /\ p + PatLen(rx) <= Len(view)
    /\ LitAt(view, rx.lit1, p)
    /\ LitAt(view, rx.lit2, p + Len(rx.lit1) + rx.gap1)
    /\ LitAt(view, rx.lit3, p + Len(rx.lit1) + rx.gap1 + Len(rx.lit2) + rx.gap2)
    /\ ClassRun(view, rx.gap1, p + Len(rx.lit1))
    /\ ClassRun(view, rx.gap2, p + Len(rx.lit1) + rx.gap1 + Len(rx.lit2))

\* The least element of a non-empty set of offsets.
Leftmost(S) == CHOOSE p \in S : \A q \in S : p <= q

\* Mutant of re_search: the rightmost match instead of the leftmost.
re_search_rightmost(rx, view) ==
    LET hits == {p \in 0..(Len(view) - PatLen(rx)) : MatchAt(view, rx, p)}
    IN  IF hits = {} THEN None
        ELSE CHOOSE p \in hits : \A q \in hits : p >= q

\* re.search(rx, view): the start offsets are tried from left to right, so
\* the result is the least offset at which the regex matches, or None.
re_search(rx, view) ==
    LET hits == {p \in 0..(Len(view) - PatLen(rx)) : MatchAt(view, rx, p)}
    IN  IF hits = {} THEN None ELSE Leftmost(hits)

\* Offsets of the occurrences of sub lying wholly inside view[start:end].
Occurrences(view, sub, start, end) ==
    LET stop == IF end < Len(view) THEN end ELSE Len(view)
    IN  {p \in start..(stop - Len(sub)) : LitAt(view, sub, p)}

\* The left-to-right scan of bytes.count over the occurrences occ: take the
\* first one at or after offset from, resume behind it.
RECURSIVE ScanCount(_, _, _)
ScanCount(occ, n, from) ==
    LET rest == {p \in occ : p >= from}
    IN  IF rest = {} THEN 0
        ELSE 1 + ScanCount(occ, n, Leftmost(rest) + n)

\* bytes.count(sub, start, end): non-overlapping occurrences in
\* view[start:end].
count(view, sub, start, end) ==
    ScanCount(Occurrences(view, sub, start, end), Len(sub), start)

\* bytes.find(sub, start, end): offset of the first occurrence in
\* view[start:end], or -1.
find(view, sub, start, end) ==
    LET occ == Occurrences(view, sub, start, end)
    IN  IF occ = {} THEN -1 ELSE Leftmost(occ)

(***************************************************************************)
(* VBIOSROM methods as operators on the object's fields                    *)
(***************************************************************************)
\* detect_offsets, header part: the match start, or None when the method
\* raises "Couldn't find the ROM header!".
DetectHeader(view) ==
    LET header_match == re_search(HEADER_REGEX, view)
    IN  IF header_match = None \/ HEADER_REGEX.groups # 6
        THEN None
        ELSE header_match

\* The for loop over FOOTER_DETECTORS: index of the first detector, from
\* index k on, whose pattern matches somewhere; 0 when the loop runs out.
RECURSIVE FirstDetector(_, _)
FirstDetector(view, k) ==
    IF k > Len(FOOTER_DETECTORS) THEN 0
    ELSE IF /\ re_search(FOOTER_DETECTORS[k].pattern, view) # None
            /\ FOOTER_DETECTORS[k].pattern.groups = 6
         THEN k
         ELSE FirstDetector(view, k + 1)

\* Mutant of DetectFooter: the detector whose match lies leftmost in the
\* buffer wins, whatever its place in the catalog.
DetectFooterByPosition(view) ==
    LET M == {k \in 1..Len(FOOTER_DETECTORS) :
                 re_search(FOOTER_DETECTORS[k].pattern, view) # None}
    IN  IF M = {}
        THEN [found |-> FALSE, footer |-> None, series |-> "none"]
        ELSE LET k == CHOOSE i \in M : \A j \in M :
                         re_search(FOOTER_DETECTORS[i].pattern, view)
                             <= re_search(FOOTER_DETECTORS[j].pattern, view)
             IN  [found |-> TRUE,
                  footer |-> re_search(FOOTER_DETECTORS[k].pattern, view),
                  series |-> FOOTER_DETECTORS[k].series]

\* detect_offsets, footer part: [found, footer, series].
DetectFooter(view) ==
    LET k == FirstDetector(view, 1)
    IN  IF k = 0
        THEN [found |-> FALSE, footer |-> None, series |-> "none"]
        ELSE [found |-> TRUE,
              footer |-> re_search(FOOTER_DETECTORS[k].pattern, view),
              series |-> FOOTER_DETECTORS[k].series]

\* Mutant of SanityFinding: at least three NPDE instead of exactly three.
SanityFindingAtLeast(view, header, footer) ==
    IF header = None \/ footer = None THEN "unset"
    ELSE LET npds_count == count(view, NPDS, header, footer)
         IN  IF npds_count # 1 THEN "rule1"
             ELSE LET npde_count == count(view, NPDE, header, footer)
                  IN  IF npde_count < 3 THEN "rule2"
                      ELSE LET npds_pos == find(view, NPDS, header, footer)
                           IN  IF npds_pos = -1 THEN "nopos"
                               ELSE IF count(view, NPDE, npds_pos, footer) # 2
                                    THEN "rule3"
                                    ELSE "pass"

\* run_sanity_tests: the CheckException raised inside (or before) the try
\* block, "pass" when none is raised.
SanityFinding(view, header, footer) ==
    IF header = None \/ footer = None THEN "unset"
    ELSE LET npds_count == count(view, NPDS, header, footer)
         IN  IF npds_count # 1 THEN "rule1"
             ELSE LET npde_count == count(view, NPDE, header, footer)
                  IN  IF npde_count # 3 THEN "rule2"
                      ELSE LET npds_pos == find(view, NPDS, header, footer)
                           IN  IF npds_pos = -1 THEN "nopos"
                               ELSE IF count(view, NPDE, npds_pos, footer) # 2
                                    THEN "rule3"
                                    ELSE "pass"

\* Mutant of SanityRaises: the last test raises outside the try block.
SanityRaisesRule3(f, ignore) ==
    \/ f \in {"unset", "rule3"}
    \/ f \notin {"pass", "unset"} /\ ~ignore

\* run_sanity_tests: does the exception leave the method?  The offsets
\* check is outside the try block; the except clause swallows the others
\* when ignore_check is set.
SanityRaises(f, ignore) ==
    \/ f = "unset"
    \/ f \notin {"pass", "unset"} /\ ~ignore

\* get_spliced_rom: [ok, why, data].
GetSplicedRom(view, offs, disable) ==
    IF offs.header = None
    THEN [ok |-> FALSE, why |-> "HeaderUnset", data |-> <<>>]
    ELSE IF ~disable /\ offs.footer = None
    THEN [ok |-> FALSE, why |-> "FooterUnset", data |-> <<>>]
    ELSE LET hexpart == IF ~disable
                        THEN Slice(view, offs.header, offs.footer)
                        ELSE Slice(view, offs.header, Len(view))
             r == unhexlify(hexpart)
         IN  IF r.ok THEN [ok |-> TRUE, why |-> "none", data |-> r.data]
                     ELSE [ok |-> FALSE, why |-> "DecodeError", data |-> <<>>]

(***************************************************************************)
(* Input ROMs.  A ROM is laid out in hex digits from blocks shaped after   *)
(* the patterns (a header block, NPDE/NPDS markers, footer blocks of the   *)
(* catalog's layouts, zero filler, single stray hex digits that put what   *)
(* follows off the byte boundary) and then packed into bytes.              *)
(***************************************************************************)
MaxNibbles == 1   \* stray hex digits in front of a block
MaxHeaders == 2   \* header blocks in a ROM
MaxNPDS == 2      \* NPDS markers between header and footer
MaxNPDE == 3      \* NPDE markers on either side of the NPDS markers

Fill(n) == [i \in 1..n |-> "0"]

RECURSIVE Rep(_, _)
Rep(s, n) == IF n <= 0 THEN <<>> ELSE s \o Rep(s, n - 1)

HeaderBlock ==
    HEADER_REGEX.lit1 \o Fill(HEADER_REGEX.gap1) \o HEADER_REGEX.lit2
        \o Fill(HEADER_REGEX.gap2) \o HEADER_REGEX.lit3

FooterBlock(k) ==
    LET rx == FOOTER_DETECTORS[k].pattern
    IN  rx.lit1 \o Fill(rx.gap1) \o rx.lit2 \o Fill(rx.gap2) \o rx.lit3

RECURSIVE FooterBlocks(_)
FooterBlocks(ks) ==
    IF ks = <<>> THEN <<>>
    ELSE FooterBlock(Head(ks)) \o Fill(2) \o FooterBlocks(Tail(ks))

\* The footer blocks a ROM ends with, as catalog indices in ROM order.
FooterChoices ==
    {<<>>, <<7>>, <<6>>, <<7, 6>>, <<6, 7>>, <<7, 7>>, <<5>>, <<1>>, <<7, 1>>}

Recipe(pre, hdrs, mshift, e1, s, e2, mid, ftrs, flip) ==
    [pre |-> pre, hdrs |-> hdrs, mshift |-> mshift, e1 |-> e1, s |-> s,
     e2 |-> e2, mid |-> mid, ftrs |-> ftrs, flip |-> flip]

\* ROMs that differ in their marker counts.
MarkerRecipes ==
    {Recipe(0, 1, m, a, b, c, 0, <<7>>, FALSE) :
        m \in {0, MaxNibbles}, a \in 0..MaxNPDE, b \in 0..MaxNPDS,
        c \in 0..MaxNPDE}

\* ROMs that differ in where the header and the footers lie.
LayoutRecipes ==
    {Recipe(p, h, 0, 1, 1, 2, m, f, flip) :
        p \in 0..MaxNibbles, h \in 0..MaxHeaders, m \in 0..MaxNibbles,
        f \in FooterChoices, flip \in BOOLEAN}

HexOf(r) ==
    LET head == Rep(HeaderBlock \o Fill(2), r.hdrs) \o Fill(r.mshift)
                  \o Rep(NPDE, r.e1) \o Rep(NPDS, r.s) \o Rep(NPDE, r.e2)
        tail == Fill(r.mid) \o FooterBlocks(r.ftrs)
        raw  == Fill(r.pre) \o (IF r.flip THEN tail \o head ELSE head \o tail)
    IN  IF Len(raw) % 2 = 1 THEN raw \o Fill(1) ELSE raw

Pack(hex) ==
    [i \in 1..(Len(hex) \div 2) |->
        16 * HexValue(hex[2 * i - 1]) + HexValue(hex[2 * i])]

Images == {Pack(HexOf(r)) : r \in MarkerRecipes \cup LayoutRecipes}

(***************************************************************************)
(* The pipeline of main()                                                  *)
(***************************************************************************)
\* After VBIOSROM.__init__: the ROM is read and hexlified, no offset is set.
Init ==
    /\ image \in Images
    /\ content = hexlify(image)
    /\ offsets = [header |-> None, footer |-> None]
    /\ disable_footer \in BOOLEAN
    /\ ignore_check \in BOOLEAN
    /\ stage = "Init"
    /\ error = "none"
    /\ series = "none"
    /\ finding = "none"
    /\ spliced = <<>>
    /\ written = "no"

\* Mutant of Fail: the error is reported but the exception is swallowed.
FailSwallowed(why) ==
    /\ stage' = stage
    /\ error' = why

\* raise CheckException(...) reaching main: the run ends.
Fail(why) ==
    /\ stage' = "Failed"
    /\ error' = why

\* detect_offsets up to the assignment of offsets["header"].
DetectOffsetsHeader ==
    /\ stage = "Init"
    /\ LET h == DetectHeader(content)
       IN  IF h = None
           THEN Fail("HeaderNotFound") /\ UNCHANGED offsets
           ELSE /\ offsets' = [offsets EXCEPT !.header = h]
                /\ stage' = "HeaderFound"
                /\ UNCHANGED error
    /\ UNCHANGED <<image, content, disable_footer, ignore_check, series,
                   finding, spliced, written>>

\* detect_offsets, the branch "if not disable_footer".
DetectOffsetsFooter ==
    /\ stage = "HeaderFound"
    /\ ~disable_footer
    /\ LET f == DetectFooter(content)
       IN  IF f.found
           THEN /\ offsets' = [offsets EXCEPT !.footer = f.footer]
                /\ series' = f.series
                /\ stage' = "FooterFound"
                /\ UNCHANGED error
           ELSE Fail("FooterNotFound") /\ UNCHANGED <<offsets, series>>
    /\ UNCHANGED <<image, content, disable_footer, ignore_check, finding,
                   spliced, written>>

\* detect_offsets with disable_footer: returns after the header.
DetectOffsetsNoFooter ==
    /\ stage = "HeaderFound"
    /\ disable_footer
    /\ stage' = "FooterSkipped"
    /\ UNCHANGED <<image, content, offsets, disable_footer, ignore_check,
                   error, series, finding, spliced, written>>

\* main: rom.run_sanity_tests(args.ignore_sanity_check).
RunSanityTests ==
    /\ stage = "FooterFound"
    /\ ~disable_footer
    /\ LET f == SanityFinding(content, offsets.header, offsets.footer)
       IN  /\ finding' = f
           /\ IF SanityRaises(f, ignore_check)
              THEN Fail("SanityViolation")
              ELSE stage' = "Validated" /\ UNCHANGED error
    /\ UNCHANGED <<image, content, offsets, disable_footer, ignore_check,
                   series, spliced, written>>

\* main: with --disable-footer-strip the sanity tests are not run.
SkipSanityTests ==
    /\ stage = "FooterSkipped"
    /\ disable_footer
    /\ stage' = "SkippedValidation"
    /\ UNCHANGED <<image, content, offsets, disable_footer, ignore_check,
                   error, series, finding, spliced, written>>

\* main: spliced_rom = rom.get_spliced_rom(args.disable_footer_strip).
SpliceRom ==
    /\ stage \in {"Validated", "SkippedValidation"}
    /\ LET r == GetSplicedRom(content, offsets, disable_footer)
       IN  IF r.ok
           THEN /\ spliced' = r.data
                /\ stage' = "Spliced"
                /\ UNCHANGED error
           ELSE Fail(r.why) /\ UNCHANGED spliced
    /\ UNCHANGED <<image, content, offsets, disable_footer, ignore_check,
                   series, finding, written>>

\* main: the confirmation prompt and the write of the output file.
WriteRom ==
    /\ stage = "Spliced"
    /\ written = "no"
    /\ \E skip \in BOOLEAN, agreed \in BOOLEAN :
          written' = IF skip \/ agreed THEN "yes" ELSE "halted"
    /\ UNCHANGED <<image, content, offsets, disable_footer, ignore_check,
                   stage, error, series, finding, spliced>>

Next ==
    \/ DetectOffsetsHeader
    \/ DetectOffsetsFooter
    \/ DetectOffsetsNoFooter
    \/ RunSanityTests
    \/ SkipSanityTests
    \/ SpliceRom
    \/ WriteRom

Spec == Init /\ [][Next]_vars

(***************************************************************************)
(* Properties.  The templates are written out here independently of the   *)
(* regex records above, in bytes as the documentation gives them.          *)
(***************************************************************************)
\* The header template at offset p: 55aa, 1 wildcard byte, eb, 10 wildcard
\* bytes, 564944454f.
HeaderOccursAt(p) ==
    /\ p + 38 <= Len(content)
    /\ content[p + 1] = "5"
    /\ SubSeq(content, p + 1, p + 4) = <<"5", "5", "a", "a">>
    /\ SubSeq(content, p + 7, p + 8) = <<"e", "b">>
    /\ SubSeq(content, p + 29, p + 38)
          = <<"5", "6", "4", "9", "4", "4", "4", "5", "4", "f">>

\* A footer layout with a first gap of g bytes at offset p: 564e, g
\* wildcard bytes, NPDS, 28 wildcard bytes, NPDE.
FooterOccursAt(g, p) ==
    /\ p + 4 + 2 * g + 8 + 56 + 8 <= Len(content)
    /\ content[p + 1] = "5"
    /\ SubSeq(content, p + 1, p + 4) = <<"5", "6", "4", "e">>
    /\ SubSeq(content, p + 2 * g + 5, p + 2 * g + 12)
          = <<"4", "e", "5", "0", "4", "4", "5", "3">>
    /\ SubSeq(content, p + 2 * g + 69, p + 2 * g + 76)
          = <<"4", "e", "5", "0", "4", "4", "4", "5">>

\* The catalog as documented: first gap in bytes, in priority order.
CatalogGaps == <<318, 286, 238, 222, 174, 94, 62>>
CatalogNames == <<"RTX 30XX", "RTX 2060", "GTX 16XX / RTX 20XX",
                  "Quadro PXXX", "GTX 10XX", "GTX 980",
                  "GTX 400 - 900 Series">>

LayoutMatches(k) ==
    \E p \in 0..Len(content) : FooterOccursAt(CatalogGaps[k], p)

\* Offsets in [lo, hi) at which the 8 hex digits of a 4-byte marker stand.
MarkerOffsets(marker, lo, hi) ==
    {p \in lo..(hi - 8) :
        content[p + 1] = "4" /\ SubSeq(content, p + 1, p + 8) = marker}

SpliceExecuted ==
    stage = "Spliced" \/ (stage = "Failed" /\ error = "DecodeError")

StageEdges ==
    {<<"Init", "HeaderFound">>, <<"HeaderFound", "FooterFound">>,
     <<"HeaderFound", "FooterSkipped">>, <<"FooterFound", "Validated">>,
     <<"FooterSkipped", "SkippedValidation">>, <<"Validated", "Spliced">>,
     <<"SkippedValidation", "Spliced">>}
    \cup {<<s, "Failed">> : s \in {"Init", "HeaderFound", "FooterFound",
                                   "Validated", "SkippedValidation"}}

\* C1: a run visits its stages only along Init -> HeaderFound ->
\* (FooterFound | FooterSkipped) -> (Validated | SkippedValidation) ->
\* Spliced, never back; a failure puts the run in Failed, from which no step
\* is taken and in which nothing was spliced or written.
C1_StageOrder ==
    [][ /\ stage # "Failed"
        /\ stage' # stage => <<stage, stage'>> \in StageEdges
        /\ stage' = "FooterSkipped" => disable_footer
        /\ stage' = "FooterFound" => ~disable_footer
        /\ error' # "none" <=> stage' = "Failed"
        /\ stage' = "Failed" => spliced' = <<>> /\ written' = "no" ]_vars

C1_Witness ==
    /\ stage = "Spliced"
    /\ written = "yes"
    /\ finding = "pass"
    /\ offsets.header # None
    /\ offsets.footer # None

\* C2: once the footer search has run, the footer is the leftmost match of
\* the first catalog entry (in catalog order) that matches anywhere, and
\* the search fails with FooterNotFound exactly when no entry matches.
C2_FooterPriority ==
    /\ [k \in 1..Len(FOOTER_DETECTORS) |->
           FOOTER_DETECTORS[k].pattern.gap1 \div 2] = CatalogGaps
    /\ [k \in 1..Len(FOOTER_DETECTORS) |->
           FOOTER_DETECTORS[k].series] = CatalogNames
    /\ (~disable_footer /\ offsets.header # None /\ stage # "HeaderFound") =>
          LET M == {k \in 1..Len(CatalogGaps) : LayoutMatches(k)}
          IN  IF M = {}
              THEN /\ stage = "Failed"
                   /\ error = "FooterNotFound"
                   /\ offsets.footer = None
              ELSE LET k == CHOOSE i \in M : \A j \in M : i <= j
                   IN  /\ error # "FooterNotFound"
                       /\ series = CatalogNames[k]
                       /\ offsets.footer # None
                       /\ FooterOccursAt(CatalogGaps[k], offsets.footer)
                       /\ \A q \in 0..(offsets.footer - 1) :
                             ~FooterOccursAt(CatalogGaps[k], q)

\* A lower-priority layout matches left of the reported footer.
C2_Witness ==
    /\ offsets.footer # None
    /\ series = "GTX 980"
    /\ \E q \in 0..(offsets.footer - 1) : FooterOccursAt(62, q)

\* C3: the sanity tests pass exactly when [header, footer) holds one M1,
\* three M2 and two M2 after the M1; otherwise the finding is the first rule
\* broken (rule 1: M1 count, rule 2: M2 count, rule 3: M2 after M1); with
\* fatal violations the run fails in the sanity tests exactly when they do
\* not pass.
C3_SanityExact ==
    finding # "none" =>
        LET h == offsets.header
            f == offsets.footer
            m1 == MarkerOffsets(NPDS, h, f)
            m2 == MarkerOffsets(NPDE, h, f)
            c1 == Cardinality(m1)
            c2 == Cardinality(m2)
            c3 == Cardinality({p \in m2 : \E q \in m1 :
                                  /\ \A r \in m1 : q <= r
                                  /\ p > q})
        IN  /\ h # None /\ f # None
            /\ finding = "pass" <=> (c1 = 1 /\ c2 = 3 /\ c3 = 2)
            /\ c1 # 1 => finding = "rule1"
            /\ (c1 = 1 /\ c2 # 3) => finding = "rule2"
            /\ (c1 = 1 /\ c2 = 3 /\ c3 # 2) => finding = "rule3"
            /\ ~ignore_check =>
                  (finding = "pass"
                      <=> ~(stage = "Failed" /\ error = "SanityViolation"))

C3_Witness ==
    /\ finding = "pass"
    /\ ~ignore_check
    /\ stage = "Validated"
    /\ Cardinality(MarkerOffsets(NPDE, offsets.header, offsets.footer)) = 3

\* C4: the spliced buffer has (footer - header) / 2 bytes with footer
\* stripping, (len(view) - header) / 2 bytes without.
C4_SpliceLength ==
    SpliceExecuted =>
        /\ stage = "Spliced"
        /\ 2 * Len(spliced) =
              (IF disable_footer THEN Len(content) ELSE offsets.footer)
                  - offsets.header

\* C5: the footer is never set while the header is unset, and when both are
\* set, header < footer.
C5_HeaderBeforeFooter ==
    /\ offsets.footer # None => offsets.header # None
    /\ stage = "Init" => offsets.footer = None
    /\ (offsets.header # None /\ offsets.footer # None)
          => offsets.header < offsets.footer

\* C6: every stored offset is an even index into the hex view.
C6_EvenOffsets ==
    /\ offsets.header # None => offsets.header % 2 = 0
    /\ offsets.footer # None => offsets.footer % 2 = 0

\* C7: with footer stripping disabled the footer is never searched: no
\* FooterNotFound, footer unset, no sanity test, and the run ends with all
\* bytes from the header to the end of the ROM; with it enabled, a ROM with
\* a header and no footer layout ends in FooterNotFound without a splice.
C7_FooterOptional ==
    /\ disable_footer =>
          /\ error # "FooterNotFound"
          /\ offsets.footer = None
          /\ finding = "none"
          /\ (offsets.header # None /\ stage \in {"Spliced", "Failed"}) =>
                /\ stage = "Spliced"
                /\ spliced = SubSeq(image, (offsets.header \div 2) + 1,
                                    Len(image))
    /\ (/\ ~disable_footer
        /\ offsets.header # None
        /\ stage # "HeaderFound"
        /\ \A k \in 1..Len(CatalogGaps) : ~LayoutMatches(k)) =>
          /\ stage = "Failed"
          /\ error = "FooterNotFound"
          /\ spliced = <<>>

\* C8: a sanity violation is fatal unless ignore_check is set: ignored, the
\* run goes on to the splice; fatal, the run fails and nothing is spliced.
C8_SanityPolicy ==
    finding \notin {"none", "pass"} =>
        /\ finding \in {"rule1", "rule2", "rule3"}
        /\ IF ignore_check
           THEN /\ \/ stage \in {"Validated", "Spliced"}
                   \/ stage = "Failed" /\ error = "DecodeError"
                /\ stage = "Validated" => ENABLED SpliceRom
           ELSE /\ stage = "Failed"
                /\ error = "SanityViolation"
                /\ spliced = <<>>
                /\ written = "no"

C8_Witness ==
    /\ ignore_check
    /\ finding = "rule3"
    /\ stage = "Spliced"

\* C9: the header offset is the leftmost occurrence of the header template
\* in the unchanged hex view; with no occurrence the run fails with
\* HeaderNotFound, both offsets stay unset and nothing else runs.
C9_HeaderLeftmost ==
    /\ content = hexlify(image)
    /\ stage = "Init" => offsets = [header |-> None, footer |-> None]
    /\ stage # "Init" =>
          IF \E p \in 0..Len(content) : HeaderOccursAt(p)
          THEN /\ offsets.header # None
               /\ HeaderOccursAt(offsets.header)
               /\ \A q \in 0..(offsets.header - 1) : ~HeaderOccursAt(q)
          ELSE /\ stage = "Failed"
               /\ error = "HeaderNotFound"
               /\ offsets = [header |-> None, footer |-> None]
               /\ series = "none"
               /\ finding = "none"
               /\ spliced = <<>>
               /\ written = "no"

\* A second occurrence of the template lies right of the reported header.
C9_Witness ==
    /\ stage = "HeaderFound"
    /\ offsets.header > 0
    /\ \E q \in (offsets.header + 1)..Len(content) : HeaderOccursAt(q)

\* C10: the splice never fails to decode, and it returns the ROM's bytes
\* from byte header/2 up to byte footer/2 (or to the end of the ROM).
C10_SpliceIsImageRange ==
    /\ error # "DecodeError"
    /\ stage = "Spliced" =>
          spliced = SubSeq(image, (offsets.header \div 2) + 1,
                           IF disable_footer THEN Len(image)
                           ELSE offsets.footer \div 2)

====
